---- MODULE Spec2Model ----
(***************************************************************************)
(* Model of scrape_and_build.py (SolfagraskolanWatcher): one run of main() *)
(* loads the history file, paginates the search (fetch_page + parse_links),*)
(* follows the agenda pages (extract_attachments_from_agenda), merges,     *)
(* filters against the loaded history, appends and saves.                  *)
(*                                                                         *)
(* URLs and titles are sequences of tokens, so that the substring tests of *)
(* the code (".pdf" suffix, "/committees/" segment, keyword in a text) are *)
(* tests on tokens.  Hrefs are taken as already absolute, except for the   *)
(* malformed href on which urljoin raises ValueError.                      *)
(***************************************************************************)
EXTENDS Naturals, Sequences, FiniteSets, TLC

VARIABLES
    persisted,      \* data/history.json: NoFile, or the JSON list of its "items"
    pc,             \* position of the process: idle, paginating, harvesting, done, aborted
    runs,           \* number of runs of main() started so far (also the clock of detected_at)
    hist,           \* main: hist["items"] in memory
    known_urls,     \* main: known_urls
    p,              \* collect_all: page index of the pagination loop
    direct,         \* collect_all: direct
    agenda_pages,   \* collect_all: agenda_pages
    ai,             \* collect_all: position of the agenda loop in agenda_pages
    seen_agenda,    \* collect_all: seen_agenda
    attachments,    \* collect_all: attachments
    log,            \* history: per fetched search page, its index and len(d)+len(a)
    harvested,      \* history: agenda URLs handed to extract_attachments_from_agenda
    lastHarvest,    \* history: <<outcome>> of the last extract_attachments_from_agenda call
    lastEvt,        \* history: last network call or sleep of this run
    undelayed,      \* history: first pair of network calls with no sleep between them
    saved,          \* history: save_history was called in this run
    loaded,         \* history: data/history.json when this run started
    sameData,       \* history: this run was answered as the run before it was
    inputs,         \* the slice of upstream answers a behaviour draws from
    page,           \* input of a stand-alone parse_links call
    parsed          \* its result

vars == <<persisted, pc, runs, hist, known_urls, p, direct, agenda_pages, ai,
          seen_agenda, attachments, log, harvested, lastHarvest, lastEvt,
          undelayed, saved, loaded, sameData, inputs, page, parsed>>

----------------------------------------------------------------------------
(* Configuration and bounds *)

\* PAGE_SIZE = 100 and MAX_PAGES = 60 in the source; the model scales both
\* down, keeping 1 < PAGE_SIZE and 2 < MAX_PAGES so that every exit of the
\* pagination loop is taken.
PAGE_SIZE == 2
MAX_PAGES == 3
\* Runs of main() in one behaviour.
MaxRuns == 2
\* Anchors of one search page, links of one agenda page.
MaxAnchors == 2
MaxLinks == 2

\* The fan-out cap and the attachment budget the specification speaks of,
\* with the values of its examples; the source defines neither.
MAX_AGENDA_PAGES == 2
ATTACHMENT_BUDGET == 2

None == "None"
\* data/history.json does not exist
NoFile == [exists |-> FALSE, items |-> <<>>]

----------------------------------------------------------------------------
(* Tokens, URLs, titles *)

\* str.lower() on a token
Lower(t) ==
    CASE t = ".PDF" -> ".pdf"
      [] t = "Solfagraskolan" -> "solfagraskolan"
      [] t = "/Document/" -> "/document/"
      [] OTHER -> t

Contains(s, t) == \E i \in 1..Len(s) : Lower(s[i]) = t

\* "solfagraskolan" in norm(text)
HasKw(text) == Contains(text, "solfagraskolan")

\* is_agenda_url
AgendaSegments == {"/committees/", "/agenda", "/namnder-styrelser/", "/welcome-"}
is_agenda_url(u) == \E i \in 1..Len(u) : u[i] \in AgendaSegments

\* the href on which urljoin raises ValueError ("ftp://[bad")
Malformed == <<"ftp://[">>

\* looks_like_pdf without its HEAD fallback: u.endswith(".pdf") or re "pdf($|[?#])"
SyntacticPdf(u) ==
    \/ Len(u) > 0 /\ Lower(u[Len(u)]) = ".pdf"
    \/ \E i \in 1..Len(u) :
          /\ Lower(u[i]) = "pdf"
          /\ (i = Len(u) \/ u[i+1] \in {"?v=2", "#p"})

\* looks_like_pdf(url); hp is the set of URLs whose HEAD answers application/pdf
\* (a failed probe answers nothing)
looks_like_pdf(u, hp) == SyntacticPdf(u) \/ u \in hp

\* number of HEAD requests looks_like_pdf(url) issues
Probes(u) == IF SyntacticPdf(u) THEN 0 ELSE 1

Doc1 == <<"/files/", "d1", ".PDF">>
Mtg1 == <<"/committees/", "m1">>
Mtg2 == <<"/agenda", "m2">>
Mtg3 == <<"/welcome-", "m3">>
Att1 == <<"/Document/", "a1">>
Att2 == <<"/files/", "a2", "pdf", "?v=2">>
Plain == <<"/page/", "x1">>

KwTitle == <<"Solfagraskolan", "protokoll">>
NoTitle == <<>>
Bilaga == <<"Bilaga">>

SearchTitles == {KwTitle, NoTitle}

----------------------------------------------------------------------------
(* Sequences *)

RECURSIVE SeqsUpTo(_, _)
SeqsUpTo(S, n) ==
    IF n = 0 THEN {<<>>}
    ELSE LET shorter == SeqsUpTo(S, n - 1)
         IN shorter \cup {Append(s, x) : s \in {t \in shorter : Len(t) = n - 1}, x \in S}

RECURSIVE Flatten(_)
Flatten(ss) == IF ss = <<>> THEN <<>> ELSE Head(ss) \o Flatten(Tail(ss))

Urls(items) == {items[i].url : i \in 1..Len(items)}

----------------------------------------------------------------------------
(* Inputs: search pages, agenda pages *)

\* A search page is a sequence of blocks; a block is the element two levels
\* above its anchors (a.parent.parent), kw tells whether its own text holds the
\* keyword; an anchor has its absolute href and its text.
AnchorSeqs(H, k) ==
    {s \in SeqsUpTo([href : H, title : SearchTitles], k) : Len(s) = k}

\* the pages of at most n anchors with hrefs in H
RECURSIVE PagesOver(_, _)
PagesOver(H, n) ==
    {<<>>} \cup
    UNION {{<<[kw |-> kw, anchors |-> as]>> \o rest :
                kw \in BOOLEAN, as \in AnchorSeqs(H, k), rest \in PagesOver(H, n - k)} :
           k \in 1..n}

\* An agenda page answers with a failure (ok = FALSE) or with the links found
\* inside its sections that mention the keyword, in document order.
RespsOver(H, n) ==
    {[ok |-> FALSE, links |-> <<>>]} \cup
    {[ok |-> TRUE, links |-> ls] : ls \in SeqsUpTo([href : H, title : {NoTitle}], n)}

----------------------------------------------------------------------------
(* parse_links *)

Item(t, u, s) == [title |-> t, url |-> u, source |-> s]

\* "solfagraskolan" in block_text: the block's text holds its anchors' texts
BlockKw(b) == b.kw \/ \E i \in 1..Len(b.anchors) : HasKw(b.anchors[i].title)

\* rules 1 and 2 for anchor a of block b
AnchorDirect(b, a, hp) ==
    (IF HasKw(a.title) THEN <<Item(a.title, a.href, "direct-title")>> ELSE <<>>)
    \o
    (IF BlockKw(b) /\ looks_like_pdf(a.href, hp)
     THEN <<Item(IF a.title = <<>> THEN Bilaga ELSE a.title, a.href, "direct-block")>>
     ELSE <<>>)

\* rules 3 and 4 for anchor a of block b
AnchorAgenda(b, a, hp) ==
    LET Follow(ca) == is_agenda_url(ca.href) /\ ~looks_like_pdf(ca.href, hp)
        inBlock == SelectSeq(b.anchors, Follow)
    IN (IF BlockKw(b) THEN [i \in 1..Len(inBlock) |-> inBlock[i].href] ELSE <<>>)
       \o
       (IF BlockKw(b) /\ is_agenda_url(a.href) /\ ~looks_like_pdf(a.href, hp)
        THEN <<a.href>> ELSE <<>>)

Heads(n) == [i \in 1..n |-> "HEAD"]

\* the HEAD requests parse_links issues for anchor a of block b
AnchorProbes(b, a) ==
    IF ~BlockKw(b) THEN <<>>
    ELSE Heads(Probes(a.href))
         \o Flatten([i \in 1..Len(b.anchors) |->
                 IF is_agenda_url(b.anchors[i].href)
                 THEN Heads(Probes(b.anchors[i].href)) ELSE <<>>])
         \o (IF is_agenda_url(a.href) THEN Heads(Probes(a.href)) ELSE <<>>)

\* direct_links, agenda_pages and the HEAD requests as the loop over the
\* anchors of the page leaves them, before the dedup
DirectEmissions(pg, hp) ==
    Flatten([k \in 1..Len(pg) |->
        Flatten([i \in 1..Len(pg[k].anchors) |->
            AnchorDirect(pg[k], pg[k].anchors[i], hp)])])
AgendaEmissions(pg, hp) ==
    Flatten([k \in 1..Len(pg) |->
        Flatten([i \in 1..Len(pg[k].anchors) |->
            AnchorAgenda(pg[k], pg[k].anchors[i], hp)])])
PageProbes(pg) ==
    Flatten([k \in 1..Len(pg) |->
        Flatten([i \in 1..Len(pg[k].anchors) |->
            AnchorProbes(pg[k], pg[k].anchors[i])])])

\* [x for x in xs if not (key(x) in seen or seen.add(key(x)))]
RECURSIVE DedupItems(_, _)
DedupItems(items, seen) ==
    IF items = <<>> THEN <<>>
    ELSE IF Head(items).url \in seen THEN DedupItems(Tail(items), seen)
    ELSE <<Head(items)>> \o DedupItems(Tail(items), seen \cup {Head(items).url})

RECURSIVE DedupUrls(_, _)
DedupUrls(us, seen) ==
    IF us = <<>> THEN <<>>
    ELSE IF Head(us) \in seen THEN DedupUrls(Tail(us), seen)
    ELSE <<Head(us)>> \o DedupUrls(Tail(us), seen \cup {Head(us)})

\* the set `seen` the agenda list is filtered with: the one the direct list filled
AgendaSeen(directOut) == Urls(directOut)

parse_links(pg, hp) ==
    LET d == DedupItems(DirectEmissions(pg, hp), {})
        ag == DedupUrls(AgendaEmissions(pg, hp), AgendaSeen(d))
    IN [direct |-> d, agenda |-> ag, probes |-> PageProbes(pg)]

----------------------------------------------------------------------------
(* extract_attachments_from_agenda *)

\* "document" in href.lower() or "attachment" in href.lower()
HasDocWord(u) == Contains(u, "/document/") \/ Contains(u, "/attachment/")

\* The loop over the links of the matching sections, from the state (seen, out).
\* urljoin raising on a malformed href leaves the try block: what `out` holds
\* by then is what the function returns.
RECURSIVE WalkLinks(_, _, _, _, _)
WalkLinks(links, seen, out, probes, hp) ==
    IF links = <<>> THEN [out |-> out, failed |-> FALSE, probes |-> probes]
    ELSE LET a == Head(links)
         IN IF a.href = Malformed
            THEN [out |-> out, failed |-> TRUE, probes |-> probes]
            ELSE LET pr == probes \o Heads(Probes(a.href))
                 IN IF (looks_like_pdf(a.href, hp) \/ HasDocWord(a.href))
                       /\ a.href \notin seen
                    THEN WalkLinks(Tail(links), seen \cup {a.href},
                             Append(out, Item(IF a.title = <<>> THEN Bilaga ELSE a.title,
                                              a.href, "via-agenda")),
                             pr, hp)
                    ELSE WalkLinks(Tail(links), seen, out, pr, hp)

\* out = [] ; try: GET, raise_for_status, sections, links ; except Exception: pass
extract_attachments_from_agenda(resp, hp) ==
    IF ~resp.ok THEN [out |-> <<>>, failed |-> TRUE, probes |-> <<>>]
    ELSE WalkLinks(resp.links, {}, <<>>, <<>>, hp)

----------------------------------------------------------------------------
(* Network calls and sleeps *)

IsCall(e) == e \in {"GET_search", "GET_agenda", "HEAD"}

\* the state (last event, first undelayed pair) after the events evs
Track(last, und, evs) ==
    LET full == <<last>> \o evs
        pairs == {i \in 1..(Len(full) - 1) : IsCall(full[i]) /\ IsCall(full[i + 1])}
        first == CHOOSE i \in pairs : \A j \in pairs : i <= j
    IN [last |-> full[Len(full)],
        und |-> IF und = <<>> /\ pairs # {}
                THEN <<full[first], full[first + 1]>> ELSE und]

----------------------------------------------------------------------------
(* What the upstream answers *)

\* Every behaviour draws the answers of the network from one slice:
\*   pagination: any page over two hrefs, HEAD may call the meeting page a pdf;
\*               agenda pages fail, are empty or hold one attachment
\*   harvest:    pages of keyword blocks linking to three meeting pages;
\*               any agenda page, with a malformed link, HEAD deciding one link
\*   ledger:     pages of keyword blocks over two hrefs; agenda pages over two
\*               attachments, one of them also a direct hit
\* Each answer is a pair <<content, set of URLs whose HEAD answers pdf>>.
OneAnchorKwBlocks(pg) ==
    \A k \in 1..Len(pg) : pg[k].kw /\ Len(pg[k].anchors) = 1
NoTitles(pg) ==
    \A k \in 1..Len(pg) : \A i \in 1..Len(pg[k].anchors) :
        pg[k].anchors[i].title = NoTitle

SearchAnswersOf(slice) ==
    CASE slice = "pagination" ->
            PagesOver({Doc1, Mtg1}, MaxAnchors) \X SUBSET {Mtg1}
      [] slice = "harvest" ->
            {pg \in PagesOver({Mtg1, Mtg2, Mtg3}, MaxAnchors) :
                OneAnchorKwBlocks(pg) /\ NoTitles(pg)} \X {{}}
      [] slice = "ledger" ->
            {pg \in PagesOver({Doc1, Mtg1}, MaxAnchors) : OneAnchorKwBlocks(pg)}
            \X {{}}

AgendaAnswersOf(slice) ==
    CASE slice = "pagination" -> RespsOver({Att1}, 1) \X {{}}
      [] slice = "harvest" ->
            RespsOver({Att1, Plain, Malformed}, MaxLinks) \X SUBSET {Plain}
      [] slice = "ledger" -> RespsOver({Att1, Doc1}, MaxLinks) \X {{}}

HeadAnswersOf(slice) ==
    CASE slice = "pagination" -> (SUBSET {Mtg1}) \X BOOLEAN
      [] slice = "harvest" -> (SUBSET {Plain}) \X {TRUE}
      [] slice = "ledger" -> {{}} \X BOOLEAN

\* runs of main() in one behaviour
RunsAllowed == IF inputs = "ledger" THEN MaxRuns ELSE 1

----------------------------------------------------------------------------
(* main and collect_all *)

\* variant: the merge without its `seen` set
AllItemsNoDedup(dir, att) == dir \o att

\* collect_all: all_items = direct + attachments without repeated urls
all_items(dir, att) == DedupItems(dir \o att, {})

\* variant: new = all_now: the test against known_urls is lost
NewItemsUnfiltered(all_now, known) == all_now

\* main: new = [(t,u,s) for (t,u,s) in all_now if u not in known_urls]
NewItems(all_now, known) ==
    LET Unknown(it) == it.url \notin known IN SelectSeq(all_now, Unknown)

\* head_last_modified: None when the probe fails or sends no Last-Modified
head_last_modified(u, lm) == IF lm THEN "Last-Modified" ELSE None

\* main: the record appended for a new item
HistItem(it, now, hp, lm) ==
    [url |-> it.url, title |-> it.title, detected_at |-> now,
     last_modified |-> IF looks_like_pdf(it.url, hp)
                       THEN head_last_modified(it.url, lm) ELSE None,
     source |-> it.source]

\* variant: every record is stamped with the time of this run
AppendedRestamped(h, new, now, hp, lm) ==
    [i \in 1..Len(h) |-> [h[i] EXCEPT !.detected_at = now]]
    \o [i \in 1..Len(new) |-> HistItem(new[i], now, hp, lm)]

\* main: hist["items"] after the loop over new
Appended(h, new, now, hp, lm) ==
    h \o [i \in 1..Len(new) |-> HistItem(new[i], now, hp, lm)]

\* the HEAD requests of the loop over new
MergeProbes(new, hp) ==
    LET probing == {i \in 1..Len(new) : Probes(new[i].url) = 1}
        stamped == {i \in 1..Len(new) : looks_like_pdf(new[i].url, hp)}
    IN [k \in 1..(Cardinality(probing) + Cardinality(stamped)) |-> "HEAD"]

RunLocalsInit ==
    /\ hist = <<>> /\ known_urls = {} /\ p = 1
    /\ direct = <<>> /\ agenda_pages = <<>> /\ ai = 1 /\ seen_agenda = {}
    /\ attachments = <<>> /\ log = <<>> /\ harvested = <<>>
    /\ lastHarvest = <<>> /\ lastEvt = "none" /\ undelayed = <<>>
    /\ saved = FALSE /\ loaded = NoFile /\ sameData = FALSE

\* json.dump / json.load of the items: None is written as null, a string quoted
ToJson(items) ==
    [i \in 1..Len(items) |->
        [items[i] EXCEPT !.last_modified =
            IF @ = None THEN <<"null">> ELSE <<"string", @>>]]
FromJson(js) ==
    [i \in 1..Len(js) |->
        [js[i] EXCEPT !.last_modified = IF @[1] = "null" THEN None ELSE @[2]]]

\* load_history: {"items": []} when the file does not exist
load_history(file) == IF ~file.exists THEN <<>> ELSE FromJson(file.items)

\* save_history: the file is overwritten with the whole history
save_history(h) == [exists |-> TRUE, items |-> ToJson(h)]

\* parse_links on every answer of a slice
ParsedOf(slice) == {parse_links(ans[1], ans[2]) : ans \in SearchAnswersOf(slice)}
ParsedPagination == ParsedOf("pagination")
ParsedHarvest == ParsedOf("harvest")
ParsedLedger == ParsedOf("ledger")
SearchResults ==
    CASE inputs = "pagination" -> ParsedPagination
      [] inputs = "harvest" -> ParsedHarvest
      [] inputs = "ledger" -> ParsedLedger

\* extract_attachments_from_agenda on every answer of a slice
ExtractedOf(slice) ==
    {extract_attachments_from_agenda(ans[1], ans[2]) : ans \in AgendaAnswersOf(slice)}
ExtractedPagination == ExtractedOf("pagination")
ExtractedHarvest == ExtractedOf("harvest")
ExtractedLedger == ExtractedOf("ledger")
AgendaResults ==
    CASE inputs = "pagination" -> ExtractedPagination
      [] inputs = "harvest" -> ExtractedHarvest
      [] inputs = "ledger" -> ExtractedLedger

\* main: ensure_dirs, load_history, known_urls; collect_all: direct, agenda_pages = [], []
StartRun ==
    /\ pc \in {"idle", "done", "aborted"}
    /\ runs < RunsAllowed
    /\ runs' = runs + 1
    /\ pc' = "paginating"
    /\ hist' = load_history(persisted)
    /\ known_urls' = Urls(load_history(persisted))
    /\ loaded' = persisted
    /\ sameData' = FALSE
    /\ p' = 1
    /\ direct' = <<>> /\ agenda_pages' = <<>> /\ ai' = 1 /\ seen_agenda' = {}
    /\ attachments' = <<>> /\ log' = <<>> /\ harvested' = <<>>
    /\ lastHarvest' = <<>> /\ lastEvt' = "none" /\ undelayed' = <<>>
    /\ saved' = FALSE
    /\ UNCHANGED <<persisted, inputs, page, parsed>>

\* variant: the loop without its second test, `if (len(d)+len(a)) == 0: break`
BreakAfterFirstTestOnly(pi, n) == pi = 1 /\ n < PAGE_SIZE

\* the two break tests of the pagination loop, on n = len(d)+len(a)
BreakAfter(pi, n) == (pi = 1 /\ n < PAGE_SIZE) \/ n = 0

\* one iteration of `for p in range(1, MAX_PAGES+1)` whose fetch_page succeeds
SearchPage ==
    /\ pc = "paginating"
    /\ \E r \in SearchResults :
         LET n == Len(r.direct) + Len(r.agenda)
             brk == BreakAfter(p, n)
             tr == Track(lastEvt, undelayed,
                         <<"GET_search">> \o r.probes
                         \o (IF brk THEN <<>> ELSE <<"sleep">>))
         IN /\ direct' = direct \o r.direct
            /\ agenda_pages' = agenda_pages \o r.agenda
            /\ log' = Append(log, [p |-> p, n |-> n])
            /\ lastEvt' = tr.last
            /\ undelayed' = tr.und
            /\ IF brk \/ p = MAX_PAGES
               THEN pc' = "harvesting" /\ p' = p
               ELSE pc' = "paginating" /\ p' = p + 1
    /\ UNCHANGED <<persisted, runs, hist, known_urls, ai, seen_agenda, attachments,
                   harvested, lastHarvest, saved, loaded, sameData, inputs, page, parsed>>

\* variant: the failure is caught and what was gathered so far is saved
SearchPageFailsAfterSaving ==
    /\ pc = "paginating"
    /\ pc' = "aborted"
    /\ hist' = Appended(hist, NewItems(all_items(direct, <<>>), known_urls),
                        runs, {}, FALSE)
    /\ persisted' = save_history(hist')
    /\ saved' = TRUE
    /\ UNCHANGED <<runs, known_urls, p, direct, agenda_pages, ai, seen_agenda,
                   attachments, log, harvested, lastHarvest, lastEvt, undelayed,
                   loaded, sameData, inputs, page, parsed>>

\* fetch_page raises (timeout, raise_for_status): nothing catches it, main ends
SearchPageFails ==
    /\ pc = "paginating"
    /\ pc' = "aborted"
    /\ LET tr == Track(lastEvt, undelayed, <<"GET_search">>)
       IN lastEvt' = tr.last /\ undelayed' = tr.und
    /\ UNCHANGED <<persisted, runs, hist, known_urls, p, direct, agenda_pages, ai,
                   seen_agenda, attachments, log, harvested, lastHarvest, saved,
                   loaded, sameData, inputs, page, parsed>>

\* `for ap in agenda_pages`: an ap already in seen_agenda is skipped
SkipAgenda ==
    /\ pc = "harvesting"
    /\ ai <= Len(agenda_pages)
    /\ agenda_pages[ai] \in seen_agenda
    /\ ai' = ai + 1
    /\ UNCHANGED <<persisted, pc, runs, hist, known_urls, p, direct, agenda_pages,
                   seen_agenda, attachments, log, harvested, lastHarvest, lastEvt,
                   undelayed, saved, loaded, sameData, inputs, page, parsed>>

\* `for ap in agenda_pages`: a new ap is harvested, then time.sleep(0.3)
HarvestAgenda ==
    /\ pc = "harvesting"
    /\ ai <= Len(agenda_pages)
    /\ agenda_pages[ai] \notin seen_agenda
    /\ \E r \in AgendaResults :
         LET tr == Track(lastEvt, undelayed, <<"GET_agenda">> \o r.probes \o <<"sleep">>)
         IN /\ attachments' = attachments \o r.out
            /\ lastHarvest' = <<[url |-> agenda_pages[ai], failed |-> r.failed,
                                 returned |-> Len(r.out)]>>
            /\ lastEvt' = tr.last
            /\ undelayed' = tr.und
    /\ seen_agenda' = seen_agenda \cup {agenda_pages[ai]}
    /\ harvested' = Append(harvested, agenda_pages[ai])
    /\ ai' = ai + 1
    /\ UNCHANGED <<persisted, pc, runs, hist, known_urls, p, direct, agenda_pages,
                   log, saved, loaded, sameData, inputs, page, parsed>>

\* the agenda loop is over: the rest of collect_all, then the rest of main
MergeAndSave ==
    /\ pc = "harvesting"
    /\ ai > Len(agenda_pages)
    /\ \E ans \in HeadAnswersOf(inputs) :
         LET new == NewItems(all_items(direct, attachments), known_urls)
             tr == Track(lastEvt, undelayed, MergeProbes(new, ans[1]))
         IN /\ hist' = Appended(hist, new, runs, ans[1], ans[2])
            /\ lastEvt' = tr.last
            /\ undelayed' = tr.und
    /\ persisted' = save_history(hist')
    /\ saved' = TRUE
    /\ pc' = "done"
    /\ UNCHANGED <<runs, known_urls, p, direct, agenda_pages, ai, seen_agenda,
                   attachments, log, harvested, lastHarvest, loaded, sameData,
                   inputs, page, parsed>>

\* A run of main() that follows a completed one and is answered exactly as it
\* was: collect_all, a function of the answers, gathers the same direct and
\* attachments; main loads the file, filters, appends and saves.
RunAgainOnSameData ==
    /\ pc = "done"
    /\ runs < RunsAllowed
    /\ runs' = runs + 1
    /\ sameData' = TRUE
    /\ loaded' = persisted
    /\ known_urls' = Urls(load_history(persisted))
    /\ \E ans \in HeadAnswersOf(inputs) :
         LET new == NewItems(all_items(direct, attachments), known_urls')
         IN hist' = Appended(load_history(persisted), new, runs', ans[1], ans[2])
    /\ persisted' = save_history(hist')
    /\ saved' = TRUE
    /\ UNCHANGED <<pc, p, direct, agenda_pages, ai, seen_agenda, attachments, log,
                   harvested, lastHarvest, lastEvt, undelayed, inputs, page, parsed>>

----------------------------------------------------------------------------
(* A stand-alone call of parse_links *)

ClassifyPages == PagesOver({Doc1, Mtg1, Mtg2, Att2}, MaxAnchors)
ClassifyHeads == SUBSET {Mtg2}

Classify ==
    /\ pc = "classify"
    /\ \E hp \in ClassifyHeads :
         parsed' = [out |-> parse_links(page, hp), hp |-> hp]
    /\ pc' = "classified"
    /\ UNCHANGED <<persisted, runs, hist, known_urls, p, direct, agenda_pages, ai,
                   seen_agenda, attachments, log, harvested, lastHarvest, lastEvt,
                   undelayed, saved, loaded, sameData, inputs, page>>

----------------------------------------------------------------------------
(* Specifications *)

\* Files a behaviour may start from: none, or one written by an earlier run.
InitialHistories ==
    {NoFile,
     save_history(<<[url |-> Doc1, title |-> <<"Protokoll", "2019">>, detected_at |-> 0,
                     last_modified |-> None, source |-> "via-agenda"]>>)}

InitWith(slice) ==
    /\ persisted \in InitialHistories
    /\ pc = "idle"
    /\ runs = 0
    /\ RunLocalsInit
    /\ inputs = slice
    /\ page = <<>>
    /\ parsed = None

Next ==
    \/ StartRun
    \/ SearchPage
    \/ SearchPageFails
    \/ SkipAgenda
    \/ HarvestAgenda
    \/ MergeAndSave

\* One run of main(), the pagination in full.
Init == InitWith("pagination")
Spec == Init /\ [][Next]_vars

\* The process runs on: no network call blocks forever (timeout=30, 15, 20).
FairSpec == Spec /\ WF_vars(Next)

\* One run of main(), the harvesting in full.
InitHarvest == InitWith("harvest")
SpecHarvest == InitHarvest /\ [][Next]_vars

\* Successive runs of main().
InitLedger == InitWith("ledger")
NextLedger == Next \/ RunAgainOnSameData
SpecLedger == InitLedger /\ [][NextLedger]_vars

\* parse_links alone, on every page of the model.
InitClassify ==
    /\ persisted = NoFile
    /\ pc = "classify"
    /\ runs = 0
    /\ RunLocalsInit
    /\ inputs = "classify"
    /\ page \in ClassifyPages
    /\ parsed = None
NextClassify == Classify
SpecClassify == InitClassify /\ [][NextClassify]_vars

----------------------------------------------------------------------------
(* Claims *)

NoDupUrls(items) ==
    \A i, j \in 1..Len(items) : i # j => items[i].url # items[j].url

IsPrefix(s, t) == Len(s) <= Len(t) /\ SubSeq(t, 1, Len(s)) = s

\* the items of a history file
Items(file) == load_history(file)
Gathered == direct \o attachments

\* C1: the persisted history never holds two items with the same url, after
\* any sequence of completed and aborted runs from a history without repeats.
C1_NoDuplicateUrls == NoDupUrls(Items(persisted))

\* a second run has completed, it met a known url and a url gathered twice,
\* and the history holds items of both runs
C1_Witness ==
    /\ pc = "done" /\ runs = MaxRuns
    /\ \E i \in 1..Len(Gathered) : Gathered[i].url \in known_urls
    /\ ~NoDupUrls(Gathered)
    /\ \E i, j \in 1..Len(Items(persisted)) :
          Items(persisted)[i].detected_at = 1 /\ Items(persisted)[j].detected_at = 2

\* C2: every step leaves the items persisted before it as a prefix of the
\* items persisted after it, every field unchanged, and the items it adds
\* have urls the file did not hold.
C2_AppendOnly ==
    [][/\ IsPrefix(Items(persisted), Items(persisted'))
       /\ \A i \in (Len(Items(persisted)) + 1)..Len(Items(persisted')) :
             Items(persisted')[i].url \notin Urls(Items(persisted))]_vars

\* a run has appended an item while it gathered a known url under another
\* title and another source than the history records for it
C2_Witness ==
    /\ pc = "done"
    /\ Len(Items(persisted)) > Len(Items(loaded))
    /\ \E i \in 1..Len(Gathered) : \E j \in 1..Len(Items(loaded)) :
          /\ Gathered[i].url = Items(loaded)[j].url
          /\ Gathered[i].title # Items(loaded)[j].title
          /\ Gathered[i].source # Items(loaded)[j].source

\* C3: a run whose search-page fetch failed has not called save_history and
\* has left the history file as it was when the run started.
C3_FetchFailureIsFatal ==
    pc = "aborted" => ~saved /\ persisted = loaded

\* the fetch of the last page failed after the earlier pages had brought items
\* the history did not know
C3_Witness ==
    /\ pc = "aborted"
    /\ p = MAX_PAGES
    /\ \E i \in 1..Len(direct) : direct[i].url \notin known_urls

\* a page after which the claim says the pagination stops
Stops(pi, n) == (pi = 1 /\ n < PAGE_SIZE) \/ n = 0

C6_Order ==
    /\ Len(log) <= MAX_PAGES
    /\ \A i \in 1..Len(log) : log[i].p = i
    /\ \A i \in 1..(Len(log) - 1) : ~Stops(i, log[i].n)
    /\ pc = "paginating" =>
          /\ p = Len(log) + 1
          /\ p <= MAX_PAGES
          /\ Len(log) > 0 => ~Stops(Len(log), log[Len(log)].n)
    /\ pc \in {"harvesting", "done"} =>
          /\ Len(log) > 0
          /\ Stops(Len(log), log[Len(log)].n) \/ Len(log) = MAX_PAGES

C7_Idempotent ==
    (pc = "done" /\ sameData) => persisted = loaded

\* the run before appended items, and the run on the same data has completed
C7_Witness ==
    /\ pc = "done" /\ sameData
    /\ Len(Gathered) > 0
    /\ \E i \in 1..Len(Items(persisted)) : Items(persisted)[i].detected_at = runs - 1

\* C4: the attachments collected in a run never exceed the budget shared by
\* its agenda pages, so no harvest returns more than what was left of it.
C4_WithinBudget == Len(attachments) <= ATTACHMENT_BUDGET

\* the first MAX_AGENDA_PAGES candidates, page 1's first, then in discovery
\* order: agenda_pages is filled page after page, so that is its own order
FirstCandidates ==
    LET cands == DedupUrls(agenda_pages, {})
    IN SubSeq(cands, 1, IF Len(cands) < MAX_AGENDA_PAGES
                        THEN Len(cands) ELSE MAX_AGENDA_PAGES)

\* C5: no run fetches more than MAX_AGENDA_PAGES agenda pages, and the pages a
\* completed run fetched are the first MAX_AGENDA_PAGES candidates.
C5_FanOutCapped ==
    /\ Len(harvested) <= MAX_AGENDA_PAGES
    /\ pc = "done" => harvested = FirstCandidates

\* C8: a harvest that met a failure, in the fetch or anywhere in the
\* processing of the page, returned no item.
C8_FailureYieldsNothing ==
    \A i \in 1..Len(lastHarvest) :
        lastHarvest[i].failed => lastHarvest[i].returned = 0

\* C9: the agenda list parse_links returns is its agenda emissions with the
\* repeats dropped, whatever the direct list holds.
C9_IndependentDedup ==
    pc = "classified" =>
        parsed.out.agenda = DedupUrls(AgendaEmissions(page, parsed.hp), {})

\* C10: no two network calls of a run follow each other without a sleep
\* between them.
C10_DelayBetweenCalls == undelayed = <<>>

====
